---- MODULE Spec2Model ----
(***************************************************************************)
(* Model of src/main.py: the bot failure tracker (circuit breaker), the    *)
(* primary/backup orchestrator send_telegram_command with its inbound      *)
(* message handlers, and the result assembler process_bot_response.        *)
(*                                                                         *)
(* Time.  The tracker compares datetimes against a window of 3 hours; the  *)
(* model clock `now` counts whole hours.  Inside a query the two time      *)
(* comparisons of the poll loop (elapsed < timeout_val, and                *)
(* now - last_message_time > 4.5) are kept as the two booleans timed_out   *)
(* and quiet_over, which time spent in an await may turn true.             *)
(*                                                                         *)
(* Text.  A raw message text is a sequence of tokens, each standing for a  *)
(* substring the code's regular expressions look for.                      *)
(***************************************************************************)
EXTENDS Integers, Sequences, FiniteSets, TLC

VARIABLES
    now,               \* wall clock, in hours
    bot_fail_tracker,  \* module-level dict: bot id -> time of last failure
    lastFail,          \* history: time of the latest completed record_bot_failure(primary), {} if none
    st_pc,             \* /status request thread: "idle" or inside is_bot_blocked
    st_lft,            \* /status thread: local last_fail_time of is_bot_blocked
    qn,                \* number of queries started so far
    pc,                \* position of the running query in send_telegram_command
    client,            \* "none", "connected" or "disconnected"
    lft,               \* query thread: local last_fail_time of is_bot_blocked
    bot_to_use, use_backup, timeout_val,
    all_received_messages, stop_collecting, anti_spam_detected,
    quiet_over,        \* (time.time() - last_message_time[0]) > 4.5
    timed_out,         \* not ((time.time() - start_time) < timeout_val)
    handlers,          \* handlers registered on the client
    tasks,             \* handler invocations suspended in client.get_entity
    idx,               \* process_bot_response: position of the download loop
    urls,              \* process_bot_response: indices of messages that got a url
    result,            \* what send_telegram_command returned (or raised)
    sends,             \* history: <<bot, timeout budget>> of every send_message of the query
    recorded,          \* history: record_bot_failure calls made by the query
    blocked_seen,      \* history: what is_bot_blocked returned to the query
    escalated,         \* history: the anti-spam branch (lines 260-313) was entered
    delivered,         \* history: inbound events delivered to the query's client
    configured,        \* API_ID, API_HASH and SESSION_STRING are all set
    cache,             \* the files of CACHE_DIR: cache key -> stored response
    c_pc,              \* position of a request in run_telegram_command_with_cache
    c_pair,            \* its (command, param)
    c_hit,             \* its cached_response (None: the empty set)
    c_result,          \* what it returned
    returned,          \* history: <<command, param, status>> of every request that returned
    h_kind,            \* one collecting phase: "temp" or "backup", the handler registered
    h_session,         \* its session variables
    h_tasks,           \* its handler invocations suspended in get_entity, oldest first
    h_order,           \* history: arrival numbers of the buffered messages
    h_arrived,         \* history: events that reached the client
    p_pc, p_text, p_out,  \* a call of universal_parser: position, raw_text, value returned
    ce_pc, ce_raw, ce_out, \* a call of clean_and_extract: position, raw_text, value returned
    l_pc,              \* a collecting phase on the clock: "send", "poll", "sleep" or "left"
    l_chan,            \* its channel: bot_to_use, use_backup, timeout_val
    l_now,             \* time.time(), in quarters of a second
    l_start,           \* start_time
    l_wake,            \* when asyncio.sleep returns
    l_last,            \* last_message_time[0]
    l_buffered,        \* all_received_messages is not empty
    l_stop,            \* stop_collecting
    a_pc,              \* a call of process_bot_response: "call", "download" or "return"
    a_messages,        \* its all_received_messages
    a_urls,            \* msg["urls"] of each message
    a_idx,             \* position of the download loop
    a_outcomes,        \* history: what became of each message in the download loop
    a_result           \* the value returned, or the exception that left the call

trackerVars == <<now, bot_fail_tracker, lastFail>>
statusVars == <<st_pc, st_lft>>
chanVars == <<bot_to_use, use_backup, timeout_val>>
sessVars == <<all_received_messages, stop_collecting, anti_spam_detected, quiet_over>>
histVars == <<sends, recorded, blocked_seen, escalated, delivered>>
asmVars == <<idx, urls>>
\* the orchestrator, the tracker and the /status thread
orchVars == <<trackerVars, statusVars, qn, pc, client, lft, chanVars, sessVars, timed_out,
              handlers, tasks, asmVars, result, histVars, configured>>
\* the units exercised on their own: the cache wrapper, the handlers of one
\* collecting phase
cacheVars == <<cache, c_pc, c_pair, c_hit, c_result, returned>>
handlerVars == <<h_kind, h_session, h_tasks, h_order, h_arrived>>
parserVars == <<p_pc, p_text, p_out>>
cleanVars == <<ce_pc, ce_raw, ce_out>>
loopVars == <<l_pc, l_chan, l_now, l_start, l_wake, l_last, l_buffered, l_stop>>
asmUnitVars == <<a_pc, a_messages, a_urls, a_idx, a_outcomes, a_result>>
unitVars == <<cacheVars, handlerVars, parserVars, cleanVars, loopVars, asmUnitVars>>
vars == <<orchVars, unitVars>>

----------------------------------------------------------------------------
(* Bounds of the model *)
MaxTime == 3       \* the clock stops advancing after this many hours
MaxQueries == 3    \* queries started in one run, one after the other
MaxEvents == 2     \* inbound events delivered to one query's client
MaxArrivals == 3   \* inbound events of the collecting phase exercised on its own
MaxSendTime == 2   \* quarters of a second that send_message may take
MaxMessages == 3   \* messages given to process_bot_response on its own
MaxLen == 5        \* tokens of a text given to universal_parser

(* Program constants *)
LEDERDATA_PRIMARY_BOT_ID == "@LEDERDATA_OFC_BOT"
LEDERDATA_BACKUP_BOT_ID == "@lederdata_publico_bot"
TIMEOUT_PRIMARY == 35
TIMEOUT_BACKUP == 18
TIMEOUT_BACKUP_NORMAL == 50
BLOCK_HOURS == 3

Bots == {LEDERDATA_PRIMARY_BOT_ID, LEDERDATA_BACKUP_BOT_ID}

----------------------------------------------------------------------------
(* Failure tracker.  An optional value (dict.get) is the empty set or a    *)
(* singleton.                                                              *)

TrackerGet(tracker, bot_id) ==
    IF bot_id \in DOMAIN tracker THEN {tracker[bot_id]} ELSE {}

TrackerPop(tracker, bot_id) ==
    [b \in (DOMAIN tracker) \ {bot_id} |-> tracker[b]]

TrackerSet(tracker, bot_id, t) ==
    [b \in (DOMAIN tracker) \cup {bot_id} |-> IF b = bot_id THEN t ELSE tracker[b]]

\* Mutant of BlockedAt: the window test with >= in place of >.
BlockedAtInclusive(last_fail_time, t) ==
    \E f \in last_fail_time : f >= t - BLOCK_HOURS

\* is_bot_blocked, lines 41-46: the value returned, given the entry read at
\* line 40 and the time read at line 43.
BlockedAt(last_fail_time, t) ==
    \E f \in last_fail_time : f > t - BLOCK_HOURS

\* is_bot_blocked, lines 41-48: the tracker after the call. Nothing was read:
\* returns at line 42; entry still blocking: returns at line 46; otherwise
\* line 47 pops whatever entry the dict holds now.
IsBlockedEffect(tracker, bot_id, last_fail_time, t) ==
    IF last_fail_time = {} \/ BlockedAt(last_fail_time, t)
    THEN tracker
    ELSE TrackerPop(tracker, bot_id)

\* record_bot_failure, line 52.
record_bot_failure(tracker, bot_id, t) ==
    TrackerSet(tracker, bot_id, t)

----------------------------------------------------------------------------
(* Inbound events and text *)

\* Tokens of a raw text:
\*   DATA    ordinary "label : value" text
\*   ASPAM   "[⛔] ANTI-SPAM"            INTENTA  "INTENTA DESPUES"
\*   NOINFO  "[⚠️] no se encontro información"
\*   NORES   "[⚠️] no hay resultados"
\*   FMT     "formato correcto" inside other text
\*   FOOT    a line break followed by "Por favor, usa el formato correcto"
Has(text, tok) == \E i \in 1..Len(text) : text[i] = tok

\* get_entity(bot).id
EntityId(bot) == IF bot = LEDERDATA_PRIMARY_BOT_ID THEN "id_primary" ELSE "id_backup"

BotTexts == { <<"DATA">>, <<"ASPAM", "INTENTA">>, <<"NOINFO">>, <<"NORES">>, <<"FMT">> }

Events ==
    [sender_id : {EntityId(b) : b \in Bots}, raw_text : BotTexts, media : {FALSE}]
    \cup [sender_id : {EntityId(b) : b \in Bots}, raw_text : {<<"DATA", "FOOT">>}, media : {TRUE}]

\* line 218
IsAntiSpam(raw_text) == Has(raw_text, "ASPAM") /\ Has(raw_text, "INTENTA")

\* lines 224 and 284
IsNoInfo(raw_text) == Has(raw_text, "NOINFO")

\* footer_pattern, lines 150-151: the "Por favor, usa el formato correcto.*"
\* alternative removes the phrase and, under DOTALL, all that follows it.
RECURSIVE CutFooter(_)
CutFooter(text) ==
    IF text = <<>> THEN <<>>
    ELSE IF Head(text) = "FOOT" THEN <<>>
    ELSE <<Head(text)>> \o CutFooter(Tail(text))

\* White space in a text: "NL" is a line break, "SP" a run of spaces or tabs.
IsSpace(tok) == tok \in {"NL", "SP"}

\* line 156: re.sub(r"\s+", " ", text); \s matches line breaks as well, so
\* every run of white space, line breaks included, becomes one space
RECURSIVE CollapseSpace(_)
CollapseSpace(text) ==
    IF text = <<>> THEN <<>>
    ELSE IF IsSpace(Head(text))
         THEN IF Tail(text) # <<>> /\ IsSpace(Head(Tail(text)))
              THEN CollapseSpace(Tail(text))
              ELSE <<"SP">> \o CollapseSpace(Tail(text))
    ELSE <<Head(text)>> \o CollapseSpace(Tail(text))

RECURSIVE DropSpace(_)
DropSpace(text) ==
    IF text # <<>> /\ IsSpace(Head(text)) THEN DropSpace(Tail(text)) ELSE text

\* strip(), lines 157 and 169
StripSpace(text) ==
    LET rev(t) == [i \in 1..Len(t) |-> t[Len(t) + 1 - i]]
    IN rev(DropSpace(rev(DropSpace(text))))

\* line 169: re.sub(r"\n\s*\n", "\n", text), leftmost match first: a line
\* break, white space and a line break become one line break
RECURSIVE SqueezeBreaks(_)
SqueezeBreaks(text) ==
    IF text = <<>> THEN <<>>
    ELSE IF Head(text) = "NL"
         THEN LET rest == DropSpace(Tail(text))
                  gap == SubSeq(Tail(text), 1, Len(Tail(text)) - Len(rest))
              IN IF Has(gap, "NL")
                 THEN <<"NL">> \o SqueezeBreaks(rest)
                 ELSE <<"NL">> \o SqueezeBreaks(Tail(text))
    ELSE <<Head(text)>> \o SqueezeBreaks(Tail(text))

\* clean_and_extract, lines 141-170
clean_and_extract(raw_text) ==
    LET text == StripSpace(CollapseSpace(CutFooter(raw_text)))
    IN [text |-> StripSpace(SqueezeBreaks(text)),
        fields |-> IF Has(text, "NOINFO") \/ Has(text, "NORES") THEN {"not_found"} ELSE {}]

\* msg_obj, lines 230-235 and 290-295
MsgObj(event) ==
    LET cleaned == clean_and_extract(event.raw_text)
    IN [message |-> cleaned.text, fields |-> cleaned.fields, media |-> event.media,
        sender_id |-> event.sender_id]

----------------------------------------------------------------------------
(* send_telegram_command: the decisions of the orchestrator *)

\* Mutant of SelectChannel: the two backup budgets are swapped.
SelectChannelShortBackup(primary_blocked) ==
    IF primary_blocked
    THEN [bot_to_use |-> LEDERDATA_BACKUP_BOT_ID, use_backup |-> TRUE,
          timeout_val |-> TIMEOUT_BACKUP]
    ELSE [bot_to_use |-> LEDERDATA_PRIMARY_BOT_ID, use_backup |-> FALSE,
          timeout_val |-> TIMEOUT_PRIMARY]

\* lines 190-197
SelectChannel(primary_blocked) ==
    IF primary_blocked
    THEN [bot_to_use |-> LEDERDATA_BACKUP_BOT_ID, use_backup |-> TRUE,
          timeout_val |-> TIMEOUT_BACKUP_NORMAL]
    ELSE [bot_to_use |-> LEDERDATA_PRIMARY_BOT_ID, use_backup |-> FALSE,
          timeout_val |-> TIMEOUT_PRIMARY]

\* Mutant of ShouldEscalate: the test of use_backup is dropped.
ShouldEscalateAlways(anti_spam, on_backup) == anti_spam

\* line 260
ShouldEscalate(anti_spam, on_backup) == anti_spam /\ ~on_backup

\* Mutant of TerminalOutcome: an empty session records a failure on any channel.
TerminalOutcomeAnyChannel(messages, on_backup) ==
    IF messages = <<>> THEN "fail_primary" ELSE "assemble"

\* lines 316-323: which of the three exits the terminal check takes
TerminalOutcome(messages, on_backup) ==
    IF messages = <<>> /\ ~on_backup THEN "fail_primary"
    ELSE IF messages = <<>> THEN "fail"
    ELSE "assemble"

\* Mutant of Except: a transport failure is raised again instead of returned.
ExceptReraise(e) ==
    IF e = "transport" THEN [status |-> "raised", message |-> e]
    ELSE [status |-> "error", message |-> e]

\* lines 325-326: every Exception raised inside the try block becomes a value
Except(e) == [status |-> "error", message |-> e]

\* The session variables the handlers close over, as one record
Session(m, s, a, q) ==
    [all_received_messages |-> m, stop_collecting |-> s,
     anti_spam_detected |-> a, quiet_over |-> q]

\* temp_handler after get_entity returned, lines 211-236
temp_handler(s, event, bot) ==
    IF event.sender_id # EntityId(bot) THEN s
    ELSE IF IsAntiSpam(event.raw_text)
    THEN Session(s.all_received_messages, TRUE, TRUE, FALSE)
    ELSE IF IsNoInfo(event.raw_text)
    THEN Session(s.all_received_messages, TRUE, s.anti_spam_detected, FALSE)
    ELSE Session(Append(s.all_received_messages, MsgObj(event)),
                 s.stop_collecting, s.anti_spam_detected, FALSE)

\* backup_handler after get_entity returned, lines 278-296: it has no
\* anti-spam branch
backup_handler(s, event, bot) ==
    IF event.sender_id # EntityId(bot) THEN s
    ELSE IF IsNoInfo(event.raw_text)
    THEN Session(s.all_received_messages, TRUE, s.anti_spam_detected, FALSE)
    ELSE Session(Append(s.all_received_messages, MsgObj(event)),
                 s.stop_collecting, s.anti_spam_detected, FALSE)

\* line 332 on one message
HasFormato(m) == Has(m.message, "FMT") \/ Has(m.message, "FOOT")

\* Mutant of ProcessChecks: only the first message's flags are looked at.
ProcessChecksFirstOnly(messages) ==
    IF \E i \in 1..Len(messages) : HasFormato(messages[i])
    THEN "Formato incorrecto."
    ELSE IF messages # <<>> /\ "not_found" \in messages[1].fields
    THEN "No se encontraron resultados."
    ELSE "ok"

\* process_bot_response, lines 332-336
ProcessChecks(messages) ==
    IF \E i \in 1..Len(messages) : HasFormato(messages[i])
    THEN "Formato incorrecto."
    ELSE IF \E i \in 1..Len(messages) : "not_found" \in messages[i].fields
    THEN "No se encontraron resultados."
    ELSE "ok"

\* lines 352-356: the texts of the messages, in order ("NL" is the line break
\* put after each non-empty text; strip() removes the last one)
RECURSIVE CombinedText(_)
CombinedText(messages) ==
    IF messages = <<>> THEN <<>>
    ELSE LET m == Head(messages)
             rest == CombinedText(Tail(messages))
         IN IF m.message = <<>> THEN rest
            ELSE IF rest = <<>> THEN m.message
            ELSE m.message \o <<"NL">> \o rest

----------------------------------------------------------------------------
(* Initial state: the module has just been imported, no request is running *)

NoResult == [status |-> "none"]

\* The orchestrator, the tracker and the /status thread before any request
OrchInit ==
    /\ now = 0
    /\ bot_fail_tracker = <<>>
    /\ lastFail = {}
    /\ st_pc = "idle" /\ st_lft = {}
    /\ qn = 0
    /\ pc = "idle"
    /\ client = "none"
    /\ lft = {}
    /\ bot_to_use = LEDERDATA_PRIMARY_BOT_ID /\ use_backup = FALSE
    /\ timeout_val = TIMEOUT_PRIMARY
    /\ all_received_messages = <<>> /\ stop_collecting = FALSE
    /\ anti_spam_detected = FALSE /\ quiet_over = FALSE
    /\ timed_out = FALSE
    /\ handlers = {} /\ tasks = <<>>
    /\ idx = 1 /\ urls = <<>>
    /\ result = NoResult
    /\ sends = <<>> /\ recorded = 0 /\ blocked_seen = {} /\ escalated = FALSE
    /\ delivered = 0
    /\ configured \in BOOLEAN

----------------------------------------------------------------------------
(* The cache wrapper run_telegram_command_with_cache, lines 55-78 and       *)
(* 401-420.  A command or a parameter is a sequence of characters.          *)

Commands == { <<"a">>, <<"a", ":", "b">> }
Params == { <<"c">>, <<"b", ":", "c">> }

\* get_cache_key, lines 57-58: the digest of "command:param"; md5 is taken
\* to be one-to-one on the strings it is given
get_cache_key(command, param) == command \o <<":">> \o param

\* get_cached_response, lines 62-69: the stored response, or None
get_cached_response(files, cache_key) ==
    IF cache_key \in DOMAIN files THEN {files[cache_key]} ELSE {}

\* save_to_cache, lines 73-76, when the file is written
save_to_cache(files, cache_key, response) ==
    [k \in (DOMAIN files) \cup {cache_key} |->
        IF k = cache_key THEN response ELSE files[k]]

\* line 415
ShouldSave(r) == r.status = "success"

\* What send_telegram_command returns: a success value (lines 395-399) or an
\* error value (lines 326, 333, 336)
OrchResults ==
    { [status |-> "success", raw_message |-> <<"DATA">>, urls |-> <<>>],
      Except("No se obtuvo respuesta del bot.") }

CacheIdle ==
    /\ cache = <<>>
    /\ c_pc = "idle" /\ c_pair = << <<>>, <<>> >> /\ c_hit = {}
    /\ c_result = NoResult
    /\ returned = {}

HandlersIdle ==
    /\ h_kind = "temp"
    /\ h_session = Session(<<>>, FALSE, FALSE, FALSE)
    /\ h_tasks = <<>> /\ h_order = <<>> /\ h_arrived = 0

----------------------------------------------------------------------------
(* universal_parser, lines 81-138.  A text is a sequence of tokens:         *)
(*   P   a pair whose label is a pivot label, "DNI : 12345678"              *)
(*   K   a pair with another label, "NOMBRE : ANA"                          *)
(*   W   words without a colon                                              *)
(*   NL  a line break                                                       *)
(* Tokens that follow each other on a line are separated by a space.  The   *)
(* value captured for a pair is reported as the place of the pair in the    *)
(* text.                                                                    *)

ParserAlphabet == {"P", "K", "W", "NL"}

Texts == UNION { [1..n -> ParserAlphabet] : n \in 0..MaxLen }

Indexed(text) == [i \in 1..Len(text) |-> [tok |-> text[i], pos |-> i]]

Reverse(s) == [i \in 1..Len(s) |-> s[Len(s) + 1 - i]]

RECURSIVE DropBreaks(_)
DropBreaks(s) ==
    IF s # <<>> /\ Head(s).tok = "NL" THEN DropBreaks(Tail(s)) ELSE s

\* strip(), lines 91 and 94
StripText(s) == Reverse(DropBreaks(Reverse(DropBreaks(s))))

\* The lines of a text, empty lines included
RECURSIVE SplitLines(_, _)
SplitLines(s, cur) ==
    IF s = <<>> THEN <<cur>>
    ELSE IF Head(s).tok = "NL" THEN <<cur>> \o SplitLines(Tail(s), <<>>)
    ELSE SplitLines(Tail(s), Append(cur, Head(s)))

\* line 98: re.split(r"\n\s*\n+", text), empty blocks dropped: a block is a
\* run of lines with no empty line among them
RECURSIVE SplitBlocks(_, _)
SplitBlocks(lines, cur) ==
    LET done == IF cur = <<>> THEN <<>> ELSE <<cur>>
    IN IF lines = <<>> THEN done
       ELSE IF Head(lines) = <<>> THEN done \o SplitBlocks(Tail(lines), <<>>)
       ELSE SplitBlocks(Tail(lines), Append(cur, Head(lines)))

IsPair(x) == x.tok \in {"P", "K"}

HasColon(line) == \E i \in 1..Len(line) : IsPair(line[i])

FirstPair(line) ==
    CHOOSE i \in 1..Len(line) : IsPair(line[i]) /\ \A j \in 1..(i - 1) : ~IsPair(line[j])

\* group(1) of the pattern of line 105: the pattern is anchored at the start
\* of a line (^ under MULTILINE) and the key is all of the line before its
\* first colon
KeyOf(line) == [i \in 1..FirstPair(line) |-> line[i].tok]

EmptyRecord == [k \in {} |-> <<>>]

\* lines 118-124: a key seen again in the block collects its values in a list
AddPair(obj, key, value) ==
    [k \in (DOMAIN obj) \cup {key} |->
        IF k # key THEN obj[k]
        ELSE IF key \in DOMAIN obj THEN Append(obj[key], value)
        ELSE <<value>>]

\* parse_block, lines 100-126: one match per line that holds a colon; what
\* follows the first colon of the line, and the lines without a colon after
\* it, are the value (.+? up to the lookahead); lines without a colon before
\* the first match are passed over
RECURSIVE parse_block(_, _)
parse_block(lines, obj) ==
    IF lines = <<>> THEN obj
    ELSE LET l == Head(lines)
         IN parse_block(Tail(lines),
                        IF HasColon(l) THEN AddPair(obj, KeyOf(l), l[FirstPair(l)].pos)
                        ELSE obj)

\* Mutant of KeepRecords: the empty blocks are not removed.
KeepRecordsAll(parsed) == parsed

\* line 129
KeepRecords(parsed) ==
    LET NotEmpty(o) == DOMAIN o # {}
    IN SelectSeq(parsed, NotEmpty)

\* universal_parser: a dict (one record, or the empty one) or a list
universal_parser(raw_text) ==
    LET text == StripText(Indexed(raw_text))
        blocks == SplitBlocks(SplitLines(text, <<>>), <<>>)
        parsed_blocks ==
            KeepRecords([i \in 1..Len(blocks) |-> parse_block(blocks[i], EmptyRecord)])
    IN IF text = <<>> THEN [kind |-> "dict", value |-> EmptyRecord]
       ELSE IF parsed_blocks = <<>> THEN [kind |-> "dict", value |-> EmptyRecord]
       ELSE IF Len(parsed_blocks) > 1 THEN [kind |-> "list", value |-> parsed_blocks]
       ELSE [kind |-> "dict", value |-> parsed_blocks[1]]

ParserIdle ==
    /\ p_pc = "idle" /\ p_text = <<>> /\ p_out = [kind |-> "none"]

\* Raw texts given to clean_and_extract on its own
RawTexts == UNION { [1..n -> {"DATA", "SP", "NL", "FOOT"}] : n \in 0..MaxLen }

CleanIdle ==
    /\ ce_pc = "idle" /\ ce_raw = <<>> /\ ce_out = [text |-> <<>>, fields |-> {}]

\* The wait loops, lines 245-255 and 303-311, on a clock that counts quarters
\* of a second
Quarters(seconds) == 4 * seconds

\* asyncio.sleep(0.5), lines 255 and 311
POLL_INTERVAL == 2

\* the 4.5 of lines 252 and 308
QUIET_PERIOD == 18

\* lines 248 and 304
LoopRuns(time, start_time, budget) == (time - start_time) < Quarters(budget)

\* Mutant of QuietOver: the test of all_received_messages is dropped.
QuietOverAnyway(buffered, time, last_message_time) ==
    (time - last_message_time) > QUIET_PERIOD

\* lines 252 and 308
QuietOver(buffered, time, last_message_time) ==
    buffered /\ (time - last_message_time) > QUIET_PERIOD

\* The channels a collecting phase can be on: lines 190-197, and 262-264
\* after the escalation
LoopChannels ==
    { SelectChannel(TRUE), SelectChannel(FALSE),
      [bot_to_use |-> LEDERDATA_BACKUP_BOT_ID, use_backup |-> TRUE,
       timeout_val |-> TIMEOUT_BACKUP] }

LoopIdle ==
    /\ l_pc = "idle" /\ l_chan = SelectChannel(FALSE)
    /\ l_now = 0 /\ l_start = 0 /\ l_wake = 0 /\ l_last = 0
    /\ l_buffered = FALSE /\ l_stop = FALSE

\* process_bot_response, lines 331-399, on a list of buffered messages

\* The messages the handlers can have buffered
BufferedMessages ==
    { MsgObj([sender_id |-> EntityId(LEDERDATA_PRIMARY_BOT_ID), raw_text |-> t, media |-> m]) :
        t \in {<<"DATA">>, <<"DATA", "FOOT">>, <<"FOOT">>, <<"NORES">>}, m \in BOOLEAN }

MessageLists == UNION { [1..n -> BufferedMessages] : n \in 1..MaxMessages }

\* What client.download_media does, line 345
DownloadOutcomes == {"path", "none", "raise"}

\* Mutant of AfterDownload: no try around the download, the exception leaves
\* the loop.
AfterDownloadUncaught(outcome) == IF outcome = "raise" THEN "raised" ELSE "next"

\* lines 342-349: the exception of a download is caught and printed, and the
\* loop goes on with the next message
AfterDownload(outcome) == "next"

\* lines 346-347: the url is added when a path came back
UrlsAfter(msg_urls, i, outcome) ==
    IF outcome = "path" THEN Append(msg_urls, i) ELSE msg_urls

\* lines 362-364
RECURSIVE CollectUrls(_)
CollectUrls(per_message) ==
    IF per_message = <<>> THEN <<>>
    ELSE Head(per_message) \o CollectUrls(Tail(per_message))

\* The combined text as universal_parser reads it: ordinary text is
\* "label : value" pairs with labels that are no pivot
AsParserText(text) ==
    [i \in 1..Len(text) |-> IF text[i] = "NL" THEN "NL" ELSE "K"]

\* lines 351-399
Assembled(messages, per_message) ==
    [status |-> "success",
     raw_message |-> CombinedText(messages),
     parsed |-> universal_parser(AsParserText(CombinedText(messages))),
     urls |-> CollectUrls(per_message)]

AssemblerIdle ==
    /\ a_pc = "idle" /\ a_messages = <<>> /\ a_urls = <<>> /\ a_idx = 1
    /\ a_outcomes = <<>> /\ a_result = NoResult

UnitsIdle ==
    CacheIdle /\ HandlersIdle /\ ParserIdle /\ CleanIdle /\ LoopIdle /\ AssemblerIdle

Init == OrchInit /\ UnitsIdle

----------------------------------------------------------------------------
(* Time and the /status endpoint, which run beside the query *)

\* An hour passes. No timestamp exists before the first failure is recorded,
\* and only differences of times are ever read, so the clock starts there.
Tick ==
    /\ now < MaxTime
    /\ lastFail # {}
    /\ now' = now + 1
    /\ UNCHANGED <<bot_fail_tracker, lastFail, statusVars, qn, pc, client, lft, chanVars,
                   sessVars, timed_out, handlers, tasks, asmVars, result, histVars,
                   configured, unitVars>>

\* status(), line 476, entering is_bot_blocked: line 40
StatusRead ==
    /\ st_pc = "idle"
    /\ st_lft' = TrackerGet(bot_fail_tracker, LEDERDATA_PRIMARY_BOT_ID)
    /\ st_pc' = "read"
    /\ UNCHANGED <<trackerVars, qn, pc, client, lft, chanVars, sessVars, timed_out,
                   handlers, tasks, asmVars, result, histVars, configured, unitVars>>

\* status(): is_bot_blocked lines 41-48
StatusDecide ==
    /\ st_pc = "read"
    /\ bot_fail_tracker' =
          IsBlockedEffect(bot_fail_tracker, LEDERDATA_PRIMARY_BOT_ID, st_lft, now)
    /\ st_pc' = "idle"
    /\ UNCHANGED <<now, lastFail, st_lft, qn, pc, client, lft, chanVars, sessVars,
                   timed_out, handlers, tasks, asmVars, result, histVars, configured, unitVars>>

----------------------------------------------------------------------------
(* send_telegram_command *)

\* The query ends its try block with the value r and goes to the finally clause.
Leave(r) ==
    /\ result' = r
    /\ pc' = "finally"

\* lines 173-180: a request thread calls send_telegram_command
StartQuery ==
    /\ pc \in {"idle", "done"}
    /\ qn < MaxQueries
    /\ qn' = qn + 1
    /\ IF configured
       THEN /\ client' = "created"
            /\ result' = NoResult
            /\ pc' = "connect"
       ELSE /\ client' = "none"
            /\ Leave(Except("Credenciales de Telegram no configuradas."))
    /\ UNCHANGED <<trackerVars, statusVars, lft, chanVars, sessVars, timed_out, handlers,
                   tasks, asmVars, histVars, configured, unitVars>>

\* line 181
Connect ==
    /\ pc = "connect"
    /\ \/ /\ client' = "connected"
          /\ pc' = "auth"
          /\ UNCHANGED result
       \/ /\ Leave(Except("transport"))
          /\ UNCHANGED client
    /\ UNCHANGED <<trackerVars, statusVars, qn, lft, chanVars, sessVars, timed_out,
                   handlers, tasks, asmVars, histVars, configured, unitVars>>

\* lines 183-184
Authorize ==
    /\ pc = "auth"
    /\ \/ /\ pc' = "select"
          /\ UNCHANGED result
       \/ Leave(Except("Cliente no autorizado."))
       \/ Leave(Except("transport"))
    /\ UNCHANGED <<trackerVars, statusVars, qn, client, lft, chanVars, sessVars, timed_out,
                   handlers, tasks, asmVars, histVars, configured, unitVars>>

\* line 187 entering is_bot_blocked: line 40
SelectRead ==
    /\ pc = "select"
    /\ lft' = TrackerGet(bot_fail_tracker, LEDERDATA_PRIMARY_BOT_ID)
    /\ pc' = "select2"
    /\ UNCHANGED <<trackerVars, statusVars, qn, client, chanVars, sessVars, timed_out,
                   handlers, tasks, asmVars, result, histVars, configured, unitVars>>

\* is_bot_blocked lines 41-48, then lines 190-204: the channel is chosen, the
\* session is created and temp_handler is registered
SelectDecide ==
    /\ pc = "select2"
    /\ LET primary_blocked == BlockedAt(lft, now)
           c == SelectChannel(primary_blocked)
       IN /\ bot_fail_tracker' =
                IsBlockedEffect(bot_fail_tracker, LEDERDATA_PRIMARY_BOT_ID, lft, now)
          /\ blocked_seen' = {primary_blocked}
          /\ bot_to_use' = c.bot_to_use
          /\ use_backup' = c.use_backup
          /\ timeout_val' = c.timeout_val
    /\ all_received_messages' = <<>> /\ stop_collecting' = FALSE
    /\ anti_spam_detected' = FALSE /\ quiet_over' = FALSE
    /\ handlers' = handlers \cup {"temp"}
    /\ pc' = "send"
    /\ UNCHANGED <<now, lastFail, statusVars, qn, client, lft, timed_out, tasks, asmVars,
                   result, sends, recorded, escalated, delivered, configured, unitVars>>

\* lines 248-253 and 304-309: the loop test, True when the loop goes on to
\* its sleep
LoopContinues(is_timed_out, stop, messages, is_quiet) ==
    /\ ~is_timed_out
    /\ ~stop
    /\ ~(messages # <<>> /\ is_quiet)

\* lines 243-255 and 301-311: send_message returns, start_time is taken and
\* the loop is entered: it sleeps, or it is left at once
Send ==
    /\ pc = "send"
    /\ \/ /\ sends' = Append(sends, <<bot_to_use, timeout_val>>)
          /\ timed_out' = FALSE
          /\ pc' = IF LoopContinues(FALSE, stop_collecting, all_received_messages,
                                    quiet_over)
                   THEN "sleep" ELSE "exit"
          /\ UNCHANGED result
       \/ /\ Leave(Except("transport"))
          /\ UNCHANGED <<sends, timed_out>>
    /\ UNCHANGED <<trackerVars, statusVars, qn, client, lft, chanVars, sessVars, handlers,
                   tasks, asmVars, recorded, blocked_seen, escalated, delivered,
                   configured, unitVars>>

\* lines 255 and 311, then 248-253 and 304-309: asyncio.sleep(0.5) returns,
\* time has passed, and the loop test is made again. The quiet period is
\* read only when a message is buffered, and buffering a message restarts it.
Wake ==
    /\ pc = "sleep"
    /\ timed_out' \in BOOLEAN
    /\ quiet_over' \in (IF all_received_messages = <<>> THEN {quiet_over}
                        ELSE {quiet_over, TRUE})
    /\ pc' = IF LoopContinues(timed_out', stop_collecting, all_received_messages,
                              quiet_over')
             THEN "sleep" ELSE "exit"
    /\ UNCHANGED <<trackerVars, statusVars, qn, client, lft, chanVars,
                   all_received_messages, stop_collecting, anti_spam_detected,
                   handlers, tasks, asmVars, result, histVars, configured, unitVars>>

\* lines 316-323 and, inside process_bot_response, lines 332-336: the query
\* fails for want of messages (recording a failure of the primary bot on the
\* first exit), or it fails on a message's content, or it goes on to the
\* downloads
TerminalCheck ==
    LET o == TerminalOutcome(all_received_messages, use_backup)
        c == ProcessChecks(all_received_messages)
    IN \/ /\ o = "fail_primary"
          /\ bot_fail_tracker' =
                record_bot_failure(bot_fail_tracker, LEDERDATA_PRIMARY_BOT_ID, now)
          /\ lastFail' = {now}
          /\ recorded' = recorded + 1
          /\ Leave(Except("No se obtuvo respuesta del bot principal."))
       \/ /\ o = "fail"
          /\ Leave(Except("No se obtuvo respuesta del bot."))
          /\ UNCHANGED <<bot_fail_tracker, lastFail, recorded>>
       \/ /\ o = "assemble"
          /\ c # "ok"
          /\ Leave([status |-> "error", message |-> c])
          /\ UNCHANGED <<bot_fail_tracker, lastFail, recorded>>
       \/ /\ o = "assemble"
          /\ c = "ok"
          /\ pc' = "download"
          /\ UNCHANGED <<bot_fail_tracker, lastFail, recorded, result>>

\* The first loop is left, line 257; then either the anti-spam branch is
\* entered, lines 260-271, or the terminal check is made
PollExitPrimary ==
    /\ pc = "exit"
    /\ ~escalated
    /\ IF ShouldEscalate(anti_spam_detected, use_backup)
       THEN /\ bot_to_use' = LEDERDATA_BACKUP_BOT_ID
            /\ use_backup' = TRUE
            /\ timeout_val' = TIMEOUT_BACKUP
            /\ all_received_messages' = <<>>
            /\ stop_collecting' = FALSE
            /\ quiet_over' = FALSE
            /\ anti_spam_detected' = FALSE
            /\ handlers' = (handlers \ {"temp"}) \cup {"backup"}
            /\ escalated' = TRUE
            /\ pc' = "send"
            /\ UNCHANGED <<bot_fail_tracker, lastFail, recorded, result>>
       ELSE /\ handlers' = handlers \ {"temp"}
            /\ TerminalCheck
            /\ UNCHANGED <<chanVars, sessVars, escalated>>
    /\ UNCHANGED <<now, statusVars, qn, client, lft, timed_out, tasks, asmVars,
                   sends, blocked_seen, delivered, configured, unitVars>>

\* The second loop is left, line 313; then the terminal check is made
PollExitBackup ==
    /\ pc = "exit"
    /\ escalated
    /\ handlers' = handlers \ {"backup"}
    /\ TerminalCheck
    /\ UNCHANGED <<now, statusVars, qn, client, lft, chanVars, sessVars, timed_out,
                   tasks, asmVars, sends, blocked_seen, escalated, delivered,
                   configured, unitVars>>

----------------------------------------------------------------------------
(* process_bot_response, from its download loop on *)

\* lines 339-341: a message without media is passed over
DownloadSkip ==
    /\ pc = "download"
    /\ idx <= Len(all_received_messages)
    /\ ~all_received_messages[idx].media
    /\ idx' = idx + 1
    /\ UNCHANGED <<trackerVars, statusVars, qn, pc, client, lft, chanVars, sessVars,
                   timed_out, handlers, tasks, urls, result, histVars, configured, unitVars>>

\* lines 342-349: download_media returns a path, returns None, or raises
Download ==
    /\ pc = "download"
    /\ idx <= Len(all_received_messages)
    /\ all_received_messages[idx].media
    /\ \/ urls' = Append(urls, idx)
       \/ UNCHANGED urls
    /\ idx' = idx + 1
    /\ UNCHANGED <<trackerVars, statusVars, qn, pc, client, lft, chanVars, sessVars,
                   timed_out, handlers, tasks, result, histVars, configured, unitVars>>

\* lines 351-399
AssembleResult ==
    /\ pc = "download"
    /\ idx > Len(all_received_messages)
    /\ Leave([status |-> "success",
              raw_message |-> CombinedText(all_received_messages),
              urls |-> urls])
    /\ UNCHANGED <<trackerVars, statusVars, qn, client, lft, chanVars, sessVars, timed_out,
                   handlers, tasks, asmVars, histVars, configured, unitVars>>

\* lines 327-329: the client is disconnected and the value is handed to the
\* caller; the locals of the call (session, handlers, client) are gone with it
Finally ==
    /\ pc = "finally"
    /\ client' = "none"
    /\ pc' = "done"
    /\ lft' = {}
    /\ bot_to_use' = LEDERDATA_PRIMARY_BOT_ID /\ use_backup' = FALSE
    /\ timeout_val' = TIMEOUT_PRIMARY
    /\ all_received_messages' = <<>> /\ stop_collecting' = FALSE
    /\ anti_spam_detected' = FALSE /\ quiet_over' = FALSE
    /\ timed_out' = FALSE
    /\ handlers' = {} /\ tasks' = <<>>
    /\ idx' = 1 /\ urls' = <<>>
    /\ sends' = <<>> /\ recorded' = 0 /\ blocked_seen' = {} /\ escalated' = FALSE
    /\ delivered' = 0
    /\ UNCHANGED <<trackerVars, statusVars, qn, result, configured, unitVars>>

----------------------------------------------------------------------------
(* Inbound messages.  The client runs a handler invocation per inbound     *)
(* event while the query is suspended in an await.                         *)

\* The awaits during which the session is still in use: send_message, the
\* sleep of the loop, download_media
AtAwait ==
    \/ pc \in {"send", "sleep"}
    \/ /\ pc = "download"
       /\ idx <= Len(all_received_messages)
       /\ all_received_messages[idx].media

\* lines 206-210 and 273-277: each registered handler is called with the
\* event; it returns at once when stop_collecting is set, otherwise it is
\* suspended in get_entity(bot_to_use)
Invocations(event) ==
    IF stop_collecting THEN <<>>
    ELSE (IF "temp" \in handlers
          THEN <<[handler |-> "temp", event |-> event, bot |-> bot_to_use]>> ELSE <<>>)
         \o (IF "backup" \in handlers
             THEN <<[handler |-> "backup", event |-> event, bot |-> bot_to_use]>> ELSE <<>>)

\* An inbound event reaches the client. The text of an event whose sender is
\* not the bot in use is never read (lines 211-212 return first), so one text
\* stands for all of them.
Deliver ==
    /\ AtAwait
    /\ client = "connected"
    /\ handlers # {}
    /\ delivered < MaxEvents
    /\ \E event \in Events :
          /\ event.sender_id = EntityId(bot_to_use) \/ event.raw_text = <<"DATA">>
          /\ tasks' = tasks \o Invocations(event)
    /\ delivered' = delivered + 1
    /\ UNCHANGED <<trackerVars, statusVars, qn, pc, client, lft, chanVars, sessVars,
                   timed_out, handlers, asmVars, result, sends, recorded, blocked_seen,
                   escalated, configured, unitVars>>

RemoveAt(seq, i) == SubSeq(seq, 1, i - 1) \o SubSeq(seq, i + 1, Len(seq))

\* get_entity returns and the handler runs to its end (lines 211-236, 278-296)
HandlerResume ==
    /\ AtAwait
    /\ client = "connected"
    /\ \E i \in 1..Len(tasks) :
          LET t == tasks[i]
              s == Session(all_received_messages, stop_collecting,
                           anti_spam_detected, quiet_over)
              r == IF t.handler = "temp" THEN temp_handler(s, t.event, t.bot)
                   ELSE backup_handler(s, t.event, t.bot)
          IN /\ tasks' = RemoveAt(tasks, i)
             /\ all_received_messages' = r.all_received_messages
             /\ stop_collecting' = r.stop_collecting
             /\ anti_spam_detected' = r.anti_spam_detected
             /\ quiet_over' = r.quiet_over
    /\ UNCHANGED <<trackerVars, statusVars, qn, pc, client, lft, chanVars, timed_out,
                   handlers, asmVars, result, histVars, configured, unitVars>>

\* get_entity raises: lines 238-239 and 298-299 print and return
HandlerFails ==
    /\ AtAwait
    /\ client = "connected"
    /\ \E i \in 1..Len(tasks) : tasks' = RemoveAt(tasks, i)
    /\ UNCHANGED <<trackerVars, statusVars, qn, pc, client, lft, chanVars, sessVars,
                   timed_out, handlers, asmVars, result, histVars, configured, unitVars>>

----------------------------------------------------------------------------
Next ==
    \/ Tick \/ StatusRead \/ StatusDecide
    \/ StartQuery \/ Connect \/ Authorize \/ SelectRead \/ SelectDecide
    \/ Send \/ Wake \/ PollExitPrimary \/ PollExitBackup
    \/ DownloadSkip \/ Download \/ AssembleResult \/ Finally
    \/ Deliver \/ HandlerResume \/ HandlerFails

Spec == Init /\ [][Next]_vars

----------------------------------------------------------------------------
(* run_telegram_command_with_cache on its own: requests for (command,       *)
(* param) pairs, one after the other; the call of send_telegram_command is  *)
(* one step that returns any value the orchestrator can return.             *)

\* lines 403-405: a request arrives, the key is computed and looked up
CacheLookup ==
    /\ c_pc = "idle"
    /\ \E command \in Commands, param \in Params :
          /\ c_pair' = <<command, param>>
          /\ c_hit' = get_cached_response(cache, get_cache_key(command, param))
    /\ c_result' = NoResult
    /\ c_pc' = "looked"
    /\ UNCHANGED <<cache, returned, orchVars, handlerVars, parserVars, cleanVars, loopVars, asmUnitVars>>

\* lines 406-408: a cached response is returned
CacheHit ==
    /\ c_pc = "looked"
    /\ c_hit # {}
    /\ \E r \in c_hit :
          /\ c_result' = r
          /\ returned' = returned \cup {<<c_pair[1], c_pair[2], r.status>>}
    /\ c_pc' = "idle"
    /\ UNCHANGED <<cache, c_pair, c_hit, orchVars, handlerVars, parserVars, cleanVars, loopVars, asmUnitVars>>

\* lines 410-413: nothing was cached, send_telegram_command is run
CacheMiss ==
    /\ c_pc = "looked"
    /\ c_hit = {}
    /\ c_result' \in OrchResults
    /\ c_pc' = "ran"
    /\ UNCHANGED <<cache, c_pair, c_hit, returned, orchVars, handlerVars, parserVars, cleanVars, loopVars, asmUnitVars>>

\* lines 415-418: a success is saved (save_to_cache may fail to write, which
\* it only prints), and the result is returned
CacheSave ==
    /\ c_pc = "ran"
    /\ IF ShouldSave(c_result)
       THEN \/ cache' = save_to_cache(cache, get_cache_key(c_pair[1], c_pair[2]), c_result)
            \/ UNCHANGED cache
       ELSE UNCHANGED cache
    /\ returned' = returned \cup {<<c_pair[1], c_pair[2], c_result.status>>}
    /\ c_pc' = "idle"
    /\ UNCHANGED <<c_pair, c_hit, c_result, orchVars, handlerVars, parserVars, cleanVars, loopVars, asmUnitVars>>

NextCache == CacheLookup \/ CacheHit \/ CacheMiss \/ CacheSave

InitCache == OrchInit /\ configured = TRUE /\ UnitsIdle

SpecCache == InitCache /\ [][NextCache]_vars

----------------------------------------------------------------------------
(* The handlers of one collecting phase on their own: the phase's bot is    *)
(* fixed, events arrive while the orchestrator is suspended in its loop,    *)
(* and every invocation suspends in get_entity before it reads the event.   *)

\* The bot the phase collects from: temp_handler is registered for the
\* first phase, backup_handler for the phase after the escalation
PhaseBot(kind) ==
    IF kind = "temp" THEN LEDERDATA_PRIMARY_BOT_ID ELSE LEDERDATA_BACKUP_BOT_ID

\* lines 204-210 and 271-277: an event reaches the client; the handler returns
\* at once when stop_collecting is set, otherwise it suspends in get_entity
HandlerCalled ==
    /\ h_arrived < MaxArrivals
    /\ \E event \in Events :
          h_tasks' = IF h_session.stop_collecting THEN h_tasks
                     ELSE Append(h_tasks, [event |-> event, n |-> h_arrived + 1])
    /\ h_arrived' = h_arrived + 1
    /\ UNCHANGED <<h_kind, h_session, h_order, orchVars, cacheVars, parserVars, cleanVars, loopVars, asmUnitVars>>

\* lines 211-236 and 278-296: get_entity returns to one of the suspended
\* invocations, which runs to its end
HandlerReturns ==
    /\ \E i \in 1..Len(h_tasks) :
          LET t == h_tasks[i]
              r == IF h_kind = "temp" THEN temp_handler(h_session, t.event, PhaseBot(h_kind))
                   ELSE backup_handler(h_session, t.event, PhaseBot(h_kind))
          IN /\ h_tasks' = RemoveAt(h_tasks, i)
             /\ h_session' = r
             /\ h_order' = IF Len(r.all_received_messages) > Len(h_session.all_received_messages)
                           THEN Append(h_order, t.n) ELSE h_order
    /\ UNCHANGED <<h_kind, h_arrived, orchVars, cacheVars, parserVars, cleanVars, loopVars, asmUnitVars>>

\* lines 238-239 and 298-299: get_entity raises in one of them
HandlerRaises ==
    /\ \E i \in 1..Len(h_tasks) : h_tasks' = RemoveAt(h_tasks, i)
    /\ UNCHANGED <<h_kind, h_session, h_order, h_arrived, orchVars, cacheVars, parserVars, cleanVars, loopVars, asmUnitVars>>

NextHandlers == HandlerCalled \/ HandlerReturns \/ HandlerRaises

InitHandlers ==
    /\ OrchInit /\ configured = TRUE
    /\ CacheIdle /\ ParserIdle /\ CleanIdle /\ LoopIdle /\ AssemblerIdle
    /\ h_kind \in {"temp", "backup"}
    /\ h_session = Session(<<>>, FALSE, FALSE, FALSE)
    /\ h_tasks = <<>> /\ h_order = <<>> /\ h_arrived = 0

SpecHandlers == InitHandlers /\ [][NextHandlers]_vars

----------------------------------------------------------------------------
(* universal_parser on its own *)

\* lines 81-138
Parse ==
    /\ p_pc = "call"
    /\ p_out' = universal_parser(p_text)
    /\ p_pc' = "return"
    /\ UNCHANGED <<p_text, orchVars, cacheVars, handlerVars, cleanVars, loopVars, asmUnitVars>>

NextParser == Parse

InitParser ==
    /\ OrchInit /\ configured = TRUE
    /\ CacheIdle /\ HandlersIdle /\ CleanIdle /\ LoopIdle /\ AssemblerIdle
    /\ p_pc = "call" /\ p_text \in Texts /\ p_out = [kind |-> "none"]

SpecParser == InitParser /\ [][NextParser]_vars

----------------------------------------------------------------------------
(* clean_and_extract on its own *)

\* lines 141-170
Clean ==
    /\ ce_pc = "call"
    /\ ce_out' = clean_and_extract(ce_raw)
    /\ ce_pc' = "return"
    /\ UNCHANGED <<ce_raw, orchVars, cacheVars, handlerVars, parserVars, loopVars, asmUnitVars>>

NextClean == Clean

InitClean ==
    /\ OrchInit /\ configured = TRUE
    /\ CacheIdle /\ HandlersIdle /\ ParserIdle /\ LoopIdle /\ AssemblerIdle
    /\ ce_pc = "call" /\ ce_raw \in RawTexts /\ ce_out = [text |-> <<>>, fields |-> {}]

SpecClean == InitClean /\ [][NextClean]_vars

----------------------------------------------------------------------------
(* A collecting phase on the clock.  The handlers share the event loop with *)
(* the wait loop, so they run while it is suspended in send_message or in   *)
(* asyncio.sleep; a handler is taken here to run to its end at once, and    *)
(* asyncio.sleep(0.5) to return after 0.5.                                  *)

\* The clock advances while the coroutine is suspended
Elapse ==
    /\ \/ l_pc = "send" /\ l_now < MaxSendTime
       \/ l_pc = "sleep" /\ l_now < l_wake
    /\ l_now' = l_now + 1
    /\ UNCHANGED <<l_pc, l_chan, l_start, l_wake, l_last, l_buffered, l_stop,
                   orchVars, cacheVars, handlerVars, parserVars, cleanVars, asmUnitVars>>

\* temp_handler, lines 205-239, or backup_handler, lines 272-299, on an event
LoopHandler ==
    /\ l_pc \in {"send", "sleep"}
    /\ ~l_stop
    /\ \E event \in Events :
          LET fresh == Session(<<>>, FALSE, FALSE, FALSE)
              r == IF l_chan.timeout_val = TIMEOUT_BACKUP
                   THEN backup_handler(fresh, event, l_chan.bot_to_use)
                   ELSE temp_handler(fresh, event, l_chan.bot_to_use)
          IN /\ event.sender_id = EntityId(l_chan.bot_to_use)
             /\ l_last' = l_now
             /\ l_buffered' = (l_buffered \/ r.all_received_messages # <<>>)
             /\ l_stop' = r.stop_collecting
    /\ UNCHANGED <<l_pc, l_chan, l_now, l_start, l_wake,
                   orchVars, cacheVars, handlerVars, parserVars, cleanVars, asmUnitVars>>

\* lines 243-245 and 301-303: send_message returns, start_time is taken
SendDone ==
    /\ l_pc = "send"
    /\ l_start' = l_now
    /\ l_pc' = "poll"
    /\ UNCHANGED <<l_chan, l_now, l_wake, l_last, l_buffered, l_stop,
                   orchVars, cacheVars, handlerVars, parserVars, cleanVars, asmUnitVars>>

\* lines 248-255 and 304-311: one pass of the loop
Poll ==
    /\ l_pc = "poll"
    /\ IF ~LoopRuns(l_now, l_start, l_chan.timeout_val) THEN l_pc' = "left" /\ l_wake' = l_wake
       ELSE IF l_stop THEN l_pc' = "left" /\ l_wake' = l_wake
       ELSE IF QuietOver(l_buffered, l_now, l_last) THEN l_pc' = "left" /\ l_wake' = l_wake
       ELSE l_pc' = "sleep" /\ l_wake' = l_now + POLL_INTERVAL
    /\ UNCHANGED <<l_chan, l_now, l_start, l_last, l_buffered, l_stop,
                   orchVars, cacheVars, handlerVars, parserVars, cleanVars, asmUnitVars>>

\* lines 255 and 311: asyncio.sleep returns
SleepReturns ==
    /\ l_pc = "sleep"
    /\ l_now = l_wake
    /\ l_pc' = "poll"
    /\ UNCHANGED <<l_chan, l_now, l_start, l_wake, l_last, l_buffered, l_stop,
                   orchVars, cacheVars, handlerVars, parserVars, cleanVars, asmUnitVars>>

NextLoop == Elapse \/ LoopHandler \/ SendDone \/ Poll \/ SleepReturns

InitLoop ==
    /\ OrchInit /\ configured = TRUE
    /\ CacheIdle /\ HandlersIdle /\ ParserIdle /\ CleanIdle /\ AssemblerIdle
    /\ l_pc = "send" /\ l_chan \in LoopChannels
    /\ l_now = 0 /\ l_start = 0 /\ l_wake = 0 /\ l_last = 0
    /\ l_buffered = FALSE /\ l_stop = FALSE

SpecLoop == InitLoop /\ [][NextLoop]_vars

----------------------------------------------------------------------------
(* process_bot_response on its own *)

otherUnits == <<orchVars, cacheVars, handlerVars, parserVars, cleanVars, loopVars>>

\* lines 332-336
AssemblerChecks ==
    /\ a_pc = "call"
    /\ LET c == ProcessChecks(a_messages)
       IN IF c = "ok"
          THEN a_pc' = "download" /\ a_result' = a_result
          ELSE a_pc' = "return" /\ a_result' = [status |-> "error", message |-> c]
    /\ UNCHANGED <<a_messages, a_urls, a_idx, a_outcomes, otherUnits>>

\* lines 339-341: a message without media is passed over
AssemblerSkip ==
    /\ a_pc = "download"
    /\ a_idx <= Len(a_messages)
    /\ ~a_messages[a_idx].media
    /\ a_idx' = a_idx + 1
    /\ a_outcomes' = Append(a_outcomes, "no_media")
    /\ UNCHANGED <<a_pc, a_messages, a_urls, a_result, otherUnits>>

\* lines 342-349: download_media returns a path, returns None, or raises
AssemblerDownload ==
    /\ a_pc = "download"
    /\ a_idx <= Len(a_messages)
    /\ a_messages[a_idx].media
    /\ \E outcome \in DownloadOutcomes :
          /\ a_urls' = [a_urls EXCEPT ![a_idx] = UrlsAfter(@, a_idx, outcome)]
          /\ a_outcomes' = Append(a_outcomes, outcome)
          /\ IF AfterDownload(outcome) = "next"
             THEN a_idx' = a_idx + 1 /\ UNCHANGED <<a_pc, a_result>>
             ELSE /\ a_pc' = "return"
                  /\ a_result' = [status |-> "raised", message |-> "download"]
                  /\ a_idx' = a_idx
    /\ UNCHANGED <<a_messages, otherUnits>>

\* lines 351-399
AssemblerReturns ==
    /\ a_pc = "download"
    /\ a_idx > Len(a_messages)
    /\ a_result' = Assembled(a_messages, a_urls)
    /\ a_pc' = "return"
    /\ UNCHANGED <<a_messages, a_urls, a_idx, a_outcomes, otherUnits>>

NextAssembler == AssemblerChecks \/ AssemblerSkip \/ AssemblerDownload \/ AssemblerReturns

InitAssembler ==
    /\ OrchInit /\ configured = TRUE
    /\ CacheIdle /\ HandlersIdle /\ ParserIdle /\ CleanIdle /\ LoopIdle
    /\ a_pc = "call" /\ a_messages \in MessageLists
    /\ a_urls = [i \in 1..Len(a_messages) |-> <<>>]
    /\ a_idx = 1 /\ a_outcomes = <<>> /\ a_result = NoResult

SpecAssembler == InitAssembler /\ [][NextAssembler]_vars

----------------------------------------------------------------------------
(* Properties *)

PRIMARY == LEDERDATA_PRIMARY_BOT_ID
BACKUP == LEDERDATA_BACKUP_BOT_ID

\* The step that makes the terminal check (lines 316-336) of the running query
TerminalStep == pc = "exit" /\ pc' \in {"finally", "download"}

\* The step in which is_bot_blocked returns to the query and the channel is chosen
SelectStep == pc = "select2" /\ pc' = "send"

NoResponsePrimary == Except("No se obtuvo respuesta del bot principal.")
NoResponse == Except("No se obtuvo respuesta del bot.")
NotFound == [status |-> "error", message |-> "No se encontraron resultados."]

\* C1: the first send of a query goes to the backup bot with budget 50 when
\* is_bot_blocked(primary) returned True at selection, and then it is the only
\* send; otherwise it goes to the primary bot with budget 35.
C1_ChannelSelection ==
    sends # <<>> =>
        /\ blocked_seen \in {{TRUE}, {FALSE}}
        /\ blocked_seen = {TRUE} => sends = << <<BACKUP, 50>> >>
        /\ blocked_seen = {FALSE} => sends[1] = <<PRIMARY, 35>>

C1_Witness ==
    /\ blocked_seen = {TRUE}
    /\ sends = << <<BACKUP, 50>> >>

\* C2 as stated: a query that has ended recorded a failure of the primary
\* exactly when it ended with no buffered message having used only the primary.
C2_RecordedIffEmptyOnPrimary ==
    pc = "finally" =>
        (recorded >= 1 <=>
            /\ all_received_messages = <<>>
            /\ blocked_seen = {FALSE}
            /\ ~escalated)

\* C2 as amended: the terminal check of a query records a failure of the
\* primary exactly when no message is buffered and only the primary was used;
\* with no message on the backup it fails with the plain no-response error and
\* leaves the tracker as it is; with a message buffered it records nothing;
\* nothing but the terminal check records a failure, at most once per query,
\* and never for the backup bot.
C2_TerminalBookkeeping ==
    [][ /\ TerminalStep =>
            /\ (all_received_messages = <<>> /\ blocked_seen = {FALSE} /\ ~escalated)
                   => /\ recorded' = recorded + 1
                      /\ TrackerGet(bot_fail_tracker', PRIMARY) = {now}
                      /\ result' = NoResponsePrimary
            /\ (all_received_messages = <<>> /\ (blocked_seen = {TRUE} \/ escalated))
                   => /\ result' = NoResponse
                      /\ bot_fail_tracker' = bot_fail_tracker
                      /\ recorded' = recorded
            /\ all_received_messages # <<>>
                   => /\ bot_fail_tracker' = bot_fail_tracker
                      /\ recorded' = recorded
        /\ recorded' > recorded => (TerminalStep /\ recorded = 0)
        /\ BACKUP \notin DOMAIN bot_fail_tracker'
      ]_vars

C2_Witness ==
    /\ pc = "finally"
    /\ recorded = 1
    /\ result = NoResponsePrimary
    /\ TrackerGet(bot_fail_tracker, PRIMARY) = {now}

\* C3: a query that chose the primary and got no inbound message records a
\* failure of the primary, and a query that chooses its channel less than 3
\* hours after the latest recorded failure chooses the backup bot.
C3_CrossQueryFailover ==
    [][ /\ (TerminalStep /\ blocked_seen = {FALSE} /\ delivered = 0)
            => (recorded' = 1 /\ lastFail' = {now})
        /\ (SelectStep /\ \E f \in lastFail : now - f < 3)
            => (bot_to_use' = BACKUP /\ blocked_seen' = {TRUE})
      ]_vars

\* C4: a query sends at most twice and at most once to each bot; a second
\* send happens only after anti-spam on the primary, goes to the backup bot
\* with budget 18, and anti-spam seen on the primary is always followed by it.
C4_EscalatesOnce ==
    /\ [](/\ Len(sends) <= 2
          /\ \A i, j \in 1..Len(sends) : sends[i][1] = sends[j][1] => i = j
          /\ Len(sends) = 2 => (escalated /\ sends = << <<PRIMARY, 35>>, <<BACKUP, 18>> >>)
          /\ escalated => /\ blocked_seen = {FALSE}
                          /\ sends # <<>> /\ sends[1] = <<PRIMARY, 35>>
                          /\ bot_to_use = BACKUP /\ timeout_val = 18)
    /\ [][ /\ (pc = "exit" /\ pc' # "exit" /\ anti_spam_detected /\ blocked_seen = {FALSE}
               /\ ~escalated)
               => (escalated' /\ pc' = "send" /\ sends' = sends)
           /\ (escalated' /\ ~escalated) => (anti_spam_detected /\ pc = "exit")
           /\ escalated => (pc' = "done" \/ escalated')
         ]_vars

C4_Witness ==
    /\ escalated
    /\ sends = << <<PRIMARY, 35>>, <<BACKUP, 18>> >>

\* C5: no buffered message is a throttling (anti-spam) message.
C5_ThrottlingNeverBuffered ==
    \A i \in 1..Len(all_received_messages) :
        ~IsAntiSpam(all_received_messages[i].message)

C7_HandlersUnsubscribed ==
    pc = "finally" => handlers = {}

C9_NotFoundAlwaysWins ==
    [][ (TerminalStep /\ \E i \in 1..Len(all_received_messages) :
                            "not_found" \in all_received_messages[i].fields)
        => result' = NotFound ]_vars

\* C9 as amended: when a buffered message has the flag not_found and no
\* buffered message contains the "formato correcto" phrase, the assembler
\* returns the not-found error.
C9_NotFoundUnlessFormat ==
    [][ (/\ TerminalStep
         /\ \E i \in 1..Len(all_received_messages) :
               "not_found" \in all_received_messages[i].fields
         /\ \A i \in 1..Len(all_received_messages) :
               ~Has(all_received_messages[i].message, "FMT"))
        => result' = NotFound ]_vars

C9_Witness ==
    /\ pc = "finally"
    /\ result = NotFound
    /\ Len(all_received_messages) = 2
    /\ "not_found" \notin all_received_messages[1].fields
    /\ "not_found" \in all_received_messages[2].fields

\* C10: as in any sequential order of the calls, the tracker holds the latest
\* recorded failure of the primary for as long as it is less than 3 hours old.
C10_TrackerAtomic ==
    \A f \in lastFail :
        now - f < 3 => TrackerGet(bot_fail_tracker, PRIMARY) = {f}

\* C12: send_telegram_command is run only when nothing is cached under the
\* key of the request's (command, param); only a success is written to the
\* cache, so every cached entry is a success; and a request for a pair none of
\* whose earlier requests returned a success runs send_telegram_command.
C12_CacheGate ==
    /\ [](\A k \in DOMAIN cache : cache[k].status = "success")
    /\ [][ /\ (c_pc = "looked" /\ c_pc' = "ran")
               => get_cache_key(c_pair[1], c_pair[2]) \notin DOMAIN cache
           /\ cache' # cache
               => /\ c_result.status = "success"
                  /\ cache' = save_to_cache(cache, get_cache_key(c_pair[1], c_pair[2]),
                                            c_result)
           /\ (/\ c_pc = "looked" /\ c_pc' # "looked"
               /\ \A h \in returned :
                     (h[1] = c_pair[1] /\ h[2] = c_pair[2]) => h[3] = "error")
               => c_pc' = "ran"
         ]_vars

\* C11: every message buffered in the session was sent by the bot the query
\* is collecting from.
C11_SenderFilter ==
    \A i \in 1..Len(all_received_messages) :
        all_received_messages[i].sender_id = EntityId(bot_to_use)

\* C16: the message sequence only grows while a phase collects, and once the
\* loop of the last phase is left (the terminal check is made and the result
\* is being assembled) it does not change.
C16_FrozenAfterCollecting ==
    [][ /\ (pc \in {"send", "sleep"} /\ pc' \in {"send", "sleep"} /\ escalated' = escalated)
            => \E k \in 0..1 :
                  /\ Len(all_received_messages') = Len(all_received_messages) + k
                  /\ SubSeq(all_received_messages', 1, Len(all_received_messages))
                        = all_received_messages
        /\ (pc = "download" /\ pc' # "done")
            => all_received_messages' = all_received_messages
      ]_vars

\* C17: the buffered messages are in the order in which they arrived.
C17_ArrivalOrder ==
    \A i, j \in 1..Len(h_order) : i < j => h_order[i] < h_order[j]

\* C18: when the marker of "no information" stopped the collection and no
\* throttling was seen, the outcome of the query is the assembler's not-found
\* error.
C18_NoInfoIsNotFound ==
    [][ (TerminalStep /\ stop_collecting /\ ~anti_spam_detected)
        => result' = NotFound ]_vars

\* C19: the escalation empties the message sequence and clears the stop
\* flag, the throttled flag and the quiet period before the backup send, and
\* from then on every message of the session was buffered from the backup bot.
C19_EscalationResets ==
    /\ [][ (escalated' /\ ~escalated)
            => /\ all_received_messages' = <<>>
               /\ ~stop_collecting' /\ ~anti_spam_detected' /\ ~quiet_over'
               /\ pc' = "send" /\ sends' = sends
         ]_vars
    /\ [](escalated =>
            \A i \in 1..Len(all_received_messages) :
                all_received_messages[i].sender_id = EntityId(BACKUP))

----------------------------------------------------------------------------
(* universal_parser *)

Count(text, tok) == Cardinality({i \in 1..Len(text) : text[i] = tok})

OnlyPairs(text) == \A i \in 1..Len(text) : text[i] \in {"P", "K", "NL"}

PivotOnce(rec) == <<"P">> \in DOMAIN rec /\ Len(rec[<<"P">>]) = 1

\* C13: a text made of pairs in which the pivot label occurs N times gives
\* N records when N > 1, as a list, and one record when N = 1, and each
\* record holds the pivot label exactly once, wherever the pairs are placed.
C13_PivotRecords ==
    (p_pc = "return" /\ OnlyPairs(p_text) /\ Count(p_text, "P") >= 1) =>
        IF Count(p_text, "P") > 1
        THEN /\ p_out.kind = "list"
             /\ Len(p_out.value) = Count(p_text, "P")
             /\ \A i \in 1..Len(p_out.value) : PivotOnce(p_out.value[i])
        ELSE /\ p_out.kind = "dict"
             /\ PivotOnce(p_out.value)

\* The places in the text of the pairs of a record
PlacesOf(rec) == UNION { {rec[k][i] : i \in 1..Len(rec[k])} : k \in DOMAIN rec }

\* The blocks of a text that hold a pair
PairBlocks(text) ==
    LET blocks == SplitBlocks(SplitLines(StripText(Indexed(text)), <<>>), <<>>)
    IN {b \in 1..Len(blocks) : \E l \in 1..Len(blocks[b]) : HasColon(blocks[b][l])}

\* C20: the parser returns one record when one non-empty record results, a
\* list of the records in text order when more than one results, and the
\* empty record when none results; a text with no pair gives the empty
\* record, and a list never holds an empty record.
C20_ResultShape ==
    p_pc = "return" =>
        LET n == Cardinality(PairBlocks(p_text))
        IN /\ p_out.kind \in {"dict", "list"}
           /\ n = 0 => p_out.kind = "dict" /\ DOMAIN p_out.value = {}
           /\ n = 1 => p_out.kind = "dict" /\ DOMAIN p_out.value # {}
           /\ n > 1 => p_out.kind = "list" /\ Len(p_out.value) = n
           /\ (Count(p_text, "P") = 0 /\ Count(p_text, "K") = 0) =>
                  p_out.kind = "dict" /\ DOMAIN p_out.value = {}
           /\ p_out.kind = "list" =>
                  /\ Len(p_out.value) >= 2
                  /\ \A i \in 1..Len(p_out.value) : DOMAIN p_out.value[i] # {}
                  /\ \A i, j \in 1..Len(p_out.value) :
                         i < j => \A a \in PlacesOf(p_out.value[i]) :
                                      \A b \in PlacesOf(p_out.value[j]) : a < b

\* Two records were returned as a list for a text that also holds words
\* without a colon.
C20_Witness ==
    /\ p_pc = "return"
    /\ p_out.kind = "list" /\ Len(p_out.value) = 2
    /\ Count(p_text, "W") >= 1

----------------------------------------------------------------------------
(* clean_and_extract *)

\* The lines of a text that hold data
DataLines(text) ==
    Cardinality({i \in 1..Len(text) :
        /\ text[i] = "DATA"
        /\ \A j \in 1..(i - 1) :
               text[j] = "DATA" => \E k \in (j + 1)..(i - 1) : text[k] = "NL"})

\* C14: the line breaks left after the boilerplate is removed are kept, so
\* data that is on separate lines of the input is on separate lines of the
\* normalized text, and the normalized text has no run of spaces.
C14_LineBreaksKept ==
    ce_pc = "return" =>
        /\ DataLines(ce_out.text) = DataLines(CutFooter(ce_raw))
        /\ \A i \in 1..(Len(ce_out.text) - 1) :
               ~(ce_out.text[i] = "SP" /\ ce_out.text[i + 1] = "SP")

----------------------------------------------------------------------------
(* The wait loop *)

\* C15: at a poll the collecting phase is left exactly when stop was
\* signaled, or the timeout budget has elapsed since the send, or a message
\* is buffered and more than the quiet period has passed since the last
\* activity; with no message buffered and no stop it is not left before the
\* budget has elapsed; and it is left no later than the budget plus one poll
\* interval after the send.
C15_LeavingCollecting ==
    /\ [](l_pc \in {"poll", "sleep", "left"} =>
             l_now - l_start <= Quarters(l_chan.timeout_val) + POLL_INTERVAL)
    /\ [](l_pc \in {"poll", "sleep"} /\ l_now - l_start >= Quarters(l_chan.timeout_val)
             => l_now - l_start < Quarters(l_chan.timeout_val) + POLL_INTERVAL /\ l_now = l_wake)
    /\ []((l_pc = "left" /\ ~l_buffered /\ ~l_stop) =>
             l_now - l_start >= Quarters(l_chan.timeout_val))
    /\ [][ l_pc = "poll" =>
             ((l_pc' = "left") <=>
                 \/ l_stop
                 \/ l_now - l_start >= Quarters(l_chan.timeout_val)
                 \/ l_buffered /\ l_now - l_last > QUIET_PERIOD) ]_vars
    /\ [][ l_pc' = "left" => l_pc \in {"poll", "left"} ]_vars

\* The phase was left at the end of the budget while messages kept arriving:
\* one is buffered, no stop, and the last activity is within the quiet period.
C15_Witness ==
    /\ l_pc = "left"
    /\ l_buffered /\ ~l_stop
    /\ l_now - l_last <= QUIET_PERIOD
    /\ l_now - l_start >= Quarters(l_chan.timeout_val)

----------------------------------------------------------------------------
(* process_bot_response: the downloads *)

\* The messages whose download gave a path, in order
RECURSIVE Downloaded(_, _)
Downloaded(outcomes, i) ==
    IF i > Len(outcomes) THEN <<>>
    ELSE (IF outcomes[i] = "path" THEN <<i>> ELSE <<>>) \o Downloaded(outcomes, i + 1)

\* C21: a download that raises or returns no path is skipped for its message
\* only: every later message is still gone through, the texts of all the
\* messages are concatenated and parsed, the call returns success, and urls
\* holds an entry for exactly the messages whose download gave a path.
C21_DownloadFailureSkipped ==
    /\ (a_pc = "download" /\ a_idx <= Len(a_messages)) => Len(a_outcomes) = a_idx - 1
    /\ (a_pc = "return" /\ a_outcomes # <<>>) =>
          /\ Len(a_outcomes) = Len(a_messages)
          /\ \A i \in 1..Len(a_messages) :
                 a_messages[i].media <=> a_outcomes[i] # "no_media"
          /\ a_result.status = "success"
          /\ a_result.raw_message = CombinedText(a_messages)
          /\ a_result.parsed = universal_parser(AsParserText(a_result.raw_message))
          /\ a_result.urls = Downloaded(a_outcomes, 1)

\* A call returned after one download raised, one returned no path and one,
\* of a later message, gave a path.
C21_Witness ==
    /\ a_pc = "return"
    /\ \E i, j, k \in 1..Len(a_outcomes) :
          /\ a_outcomes[i] = "raise" /\ a_outcomes[j] = "none" /\ a_outcomes[k] = "path"
          /\ i < k
    /\ a_result.status = "success"
    /\ Len(a_result.urls) = 1

----------------------------------------------------------------------------
(* The circuit breaker across queries *)

\* A failure of the primary was recorded less than 3 hours ago
WindowOpen == \E f \in lastFail : now - f < BLOCK_HOURS

\* C22: a query that chooses its channel less than 3 hours after the latest
\* recorded failure of the primary sends nothing to the primary; while the
\* window is open a /status request leaves the tracker's entry as it is; and
\* a query served by the backup neither removes nor rewrites the entry.
C22_CircuitStaysOpen ==
    /\ [][ /\ (SelectStep /\ WindowOpen)
               => (bot_to_use' = BACKUP /\ bot_fail_tracker' = bot_fail_tracker)
           /\ (st_pc' # st_pc /\ WindowOpen) => bot_fail_tracker' = bot_fail_tracker
           /\ (pc' # pc /\ blocked_seen = {TRUE})
               => (bot_fail_tracker' = bot_fail_tracker /\ lastFail' = lastFail)
         ]_vars
    /\ []((blocked_seen = {TRUE}) => \A i \in 1..Len(sends) : sends[i][1] # PRIMARY)

----------------------------------------------------------------------------
(* The "no se encontro información" marker on the primary *)

\* The running query is on the primary, not escalated, a marker stopped the
\* collection and nothing was buffered: every reply of the primary that a
\* handler went through was the marker
OnlyMarkerReplies ==
    /\ ~escalated /\ blocked_seen = {FALSE}
    /\ stop_collecting /\ ~anti_spam_detected
    /\ all_received_messages = <<>>

\* C23: a query on the primary, not escalated, whose only replies were the
\* marker ends with "No se obtuvo respuesta del bot principal." and records a
\* failure of the primary at the current time; and a query that chooses its
\* channel less than 3 hours after that is told the primary is blocked and
\* uses the backup.
C23_MarkerCountsAsSilence ==
    [][ /\ (TerminalStep /\ OnlyMarkerReplies)
            => /\ result' = NoResponsePrimary
               /\ recorded' = recorded + 1
               /\ lastFail' = {now}
               /\ TrackerGet(bot_fail_tracker', PRIMARY) = {now}
        /\ (SelectStep /\ WindowOpen)
            => /\ blocked_seen' = {TRUE}
               /\ use_backup' /\ bot_to_use' = BACKUP /\ timeout_val' = TIMEOUT_BACKUP_NORMAL
      ]_vars

====
